---- MODULE Spec2Model ----
(***************************************************************************)
(* Model of Networking/mc-network-test.py: the multicast prober            *)
(* (loop_sending_mc / mc_send) and the responder (receive_mc), with the    *)
(* datagram sockets and the network between them.                          *)
(*                                                                         *)
(* Floats are IEEE-754 doubles.  Every value the pacing delay can take is  *)
(* m * 2^e with m in {0, 1, 5}; a delay is the record [m, e] and the       *)
(* arithmetic below rounds as the double arithmetic of the interpreter     *)
(* does (halving the smallest subnormals rounds half to even).             *)
(* Payloads are sequences of one-character strings; BadByte stands for a   *)
(* byte that is not valid UTF-8.                                           *)
(***************************************************************************)
EXTENDS Integers, Sequences, FiniteSets, TLC

\* ------------------------------------------------------------------ bounds
\* Cycles the prober runs in the protocol specifications.
MaxSent == 2
\* Cycles the prober runs in the pacing specification: enough for every
\* value the delay can take (1076 halvings take 2.0 to 0.0, 1079 cycles take
\* it through 10.0 to the rounded half of 5 * 2^-1074).
MaxCycles == 1080
\* Datagrams a socket's receive buffer holds; one that arrives at a full
\* buffer is dropped by the kernel.
MaxQueue == 2
\* Datagrams in flight on one path of the network; one more is lost.
MaxInFlight == 1
\* The count of datagrams drained in one Await is kept up to this value.
MaxDrain == 1
\* Datagrams the prober's buffer holds in the pacing specification.
PacingQueue == 1
\* Largest sequence number of the codec specification.
MaxSeq == 120
\* Datagrams delivered to the responder's socket in one run.
MaxDeliver == 2
\* The count of failure cycles in a row is kept up to this value.
MaxFails == 6

\* ------------------------------------------------------- IEEE-754 doubles
\* Exponent of the smallest positive double, 2^-1074.
MinExp == -1074

Zero == [m |-> 0, e |-> MinExp]
One == [m |-> 1, e |-> 0]
Two == [m |-> 1, e |-> 1]
Ten == [m |-> 5, e |-> 1]

\* floor(log2(m)) for the mantissas in use.
Log2(m) == IF m >= 4 THEN 2 ELSE IF m >= 2 THEN 1 ELSE 0

Pow2(k) == IF k = 0 THEN 1 ELSE IF k = 1 THEN 2 ELSE 4

\* x < y on doubles.
Less(x, y) ==
    IF y.m = 0 THEN FALSE
    ELSE IF x.m = 0 THEN TRUE
    ELSE LET kx == x.e + Log2(x.m)
             ky == y.e + Log2(y.m)
         IN IF kx # ky THEN kx < ky
            ELSE LET lo == IF x.e < y.e THEN x.e ELSE y.e
                 IN x.m * Pow2(x.e - lo) < y.m * Pow2(y.e - lo)

\* Python's max(a, b) and min(a, b): the first argument unless the second
\* is strictly larger (smaller).
PyMax(a, b) == IF Less(a, b) THEN b ELSE a
PyMin(a, b) == IF Less(b, a) THEN b ELSE a

\* An integer n > 0 times 2^e as an [m, e] with m odd.
RECURSIVE Norm(_, _)
Norm(n, e) == IF n = 0 THEN Zero
              ELSE IF n % 2 = 0 THEN Norm(n \div 2, e + 1)
              ELSE [m |-> n, e |-> e]

\* sleep / 2 in double arithmetic: exact above the smallest exponent;
\* at it the quotient is rounded to nearest, ties to even.
HalveFloored(x) ==
    PyMax(One, IF x.m = 0 THEN Zero ELSE [m |-> x.m, e |-> x.e - 1])
Halve(x) ==
    IF x.m = 0 THEN Zero
    ELSE IF x.e > MinExp THEN [m |-> x.m, e |-> x.e - 1]
    ELSE LET q == x.m \div 2
         IN Norm(IF q % 2 = 1 THEN q + 1 ELSE q, MinExp)

\* sleep * 2 in double arithmetic (no value of the loop overflows).
Twice(x) == IF x.m = 0 THEN Zero ELSE [m |-> x.m, e |-> x.e + 1]

\* The failure branch: min(max(1.0, sleep * 2), 10.0).
BackoffNoCeiling(x) == PyMax(One, Twice(x))
BackoffNoFloor(x) == PyMin(Twice(x), Ten)
Backoff(x) == PyMin(PyMax(One, Twice(x)), Ten)

\* The delay after a cycle whose mc_send returned ok.
Adjust(x, ok) == IF ok THEN Halve(x) ELSE Backoff(x)

\* ------------------------------------------------------------- wire codec
\* A byte that is not valid UTF-8 (bytes.decode() raises on it).
BadByte == "0xFF"

\* The template 'very important data - {}' up to its field.
Message == <<"v", "e", "r", "y", " ", "i", "m", "p", "o", "r", "t", "a", "n", "t", " ", "d", "a", "t", "a", " ", "-", " ">>

\* The acknowledgement template "ack - {}" up to its field.
AckPrefix == <<"a", "c", "k", " ", "-", " ">>

Digit == <<"0", "1", "2", "3", "4", "5", "6", "7", "8", "9">>

\* str.format of a non-negative int: its decimal digits.
RECURSIVE Decimal(_)
Decimal(n) == IF n < 10 THEN <<Digit[n + 1]>>
              ELSE Append(Decimal(n \div 10), Digit[(n % 10) + 1])

\* message.format(num_sent), encoded.
ProbePayload(n) == Message \o Decimal(n)

\* Index of the first sep in s at or after i, 0 when there is none.
RECURSIVE Find(_, _, _)
Find(s, sep, i) == IF i > Len(s) THEN 0
                   ELSE IF s[i] = sep THEN i
                   ELSE Find(s, sep, i + 1)

\* str.split(sep) for a one-character separator.
RECURSIVE Split(_, _)
Split(s, sep) ==
    LET i == Find(s, sep, 1)
    IN IF i = 0 THEN <<s>>
       ELSE <<SubSeq(s, 1, i - 1)>> \o Split(SubSeq(s, i + 1, Len(s)), sep)

\* bytes.decode() succeeds.
Decodable(data) == \A i \in 1..Len(data) : data[i] # BadByte

\* The field of the split the responder takes as the packet number
\* (Python index 1).
PacketNoField(fields) == fields[2]

\* data.decode() and data_str.split("-")[1]: ok is FALSE when either raises
\* (UnicodeDecodeError, IndexError).
DecodeProbe(data) ==
    IF ~Decodable(data) THEN [ok |-> FALSE, packet_no |-> <<>>]
    ELSE LET fields == Split(data, "-")
         IN IF Len(fields) < 2 THEN [ok |-> FALSE, packet_no |-> <<>>]
            ELSE [ok |-> TRUE, packet_no |-> PacketNoField(fields)]

\* "ack - {}".format(packet_no), encoded.
AckPayload(packet_no) == AckPrefix \o packet_no

\* ------------------------------------------------------------------ state
VARIABLES
    option,        \* args.option of the instance under study (the prober's
                   \* where a prober and a responder run)
    mpc,           \* where its module-level code is: "start", "usage",
                   \* "loop_sending_mc", "receive_mc"
    timeout,       \* args.timeout: 0 or a positive number of seconds
    ppc,           \* prober: "idle", "send", "recv", "sleep", "exit"
    num_sent,      \* loop_sending_mc's num_sent
    sleep,         \* loop_sending_mc's sleep, a double
    received_ack,  \* mc_send's received_ack
    psock,         \* receive buffer of the prober's socket: payloads
    emitted,       \* history: sendto calls the prober has completed
    last_sent,     \* history: payload of the last of them
    drained,       \* history: datagrams recvfrom returned in this mc_send
    last_recv,     \* history: the data of the last of them
    result,        \* history: what the last mc_send returned
    prev,          \* history: sleep before the last adjustment
    backlog,       \* history: what was queued on the socket when the
                   \* cycle's probe was sent
    fails,         \* history: failure cycles in a row, counted up to MaxFails
    fault,         \* history: what ended the prober: "none", "send",
                   \* "recv", "would_block"
    rpc,           \* responder: "idle", "wait", "pause", "dead"
    rsock,         \* receive buffer of the responder's socket
    rlast,         \* history: the last datagram the responder handled
    rdelivered,    \* history: datagrams put into the responder's buffer
    mnet,          \* datagrams in flight to the multicast group
    unet           \* acknowledgements in flight to the prober

pvars == <<ppc, num_sent, sleep, received_ack, emitted, last_sent, drained,
           last_recv, result, prev, backlog, fails, fault>>
rvars == <<rpc, rlast, rdelivered>>
vars == <<option, mpc, timeout, ppc, num_sent, sleep, received_ack, psock,
          emitted, last_sent, drained, last_recv, result, prev, backlog, fails,
          fault, rpc, rsock, rlast, rdelivered, mnet, unet>>

ProberAddr == "prober"
OtherAddr == "other"

\* Payloads an unrelated application sends to the prober's port.
StrayPayloads == {<<"x">>}

NoDatagram == [id |-> 0, data |-> <<>>, src |-> "none", outcome |-> "none",
               token |-> <<>>, nacks |-> 0, ack |-> <<>>, dest |-> "none"]

\* The state once the role's loop is entered: loop_sending_mc has set
\* num_sent = 0 and sleep = 2.0 and formed its socket, or receive_mc has
\* formed and bound its socket; inbox is what has reached that socket.
LoopsInit(tmo, prober, responder, inbox) ==
    /\ timeout = tmo
    /\ ppc = IF prober THEN "send" ELSE "idle"
    /\ num_sent = 0
    /\ sleep = Two
    /\ received_ack = FALSE
    /\ psock = <<>>
    /\ emitted = 0
    /\ last_sent = <<>>
    /\ drained = 0
    /\ last_recv = <<>>
    /\ result = "none"
    /\ prev = Two
    /\ backlog = <<>>
    /\ fails = 0
    /\ fault = "none"
    /\ rpc = IF responder THEN "wait" ELSE "idle"
    /\ rsock = inbox
    /\ rlast = NoDatagram
    /\ rdelivered = Len(inbox)
    /\ mnet = {}
    /\ unet = {}

\* The state with the chosen loops entered by the module-level code.
InitWith(tmo, prober, responder, inbox) ==
    /\ option = IF prober THEN <<"s">> ELSE <<"r">>
    /\ mpc = IF prober THEN "loop_sending_mc" ELSE "receive_mc"
    /\ LoopsInit(tmo, prober, responder, inbox)

\* ----------------------------------------------------------------- prober
\* mc_send up to the receive loop: sendto puts the probe on the network
\* (carried, or lost on the way) and received_ack starts False.
PSend(cap, carried) ==
    /\ ppc = "send"
    /\ num_sent < cap
    /\ LET message_bytes == ProbePayload(num_sent)
       IN /\ last_sent' = message_bytes
          /\ mnet' = IF carried /\ Cardinality(mnet) < MaxInFlight
                     THEN mnet \cup {[data |-> message_bytes, src |-> ProberAddr]}
                     ELSE mnet
    /\ emitted' = emitted + 1
    /\ received_ack' = FALSE
    /\ drained' = 0
    /\ backlog' = psock
    /\ ppc' = "recv"
    /\ UNCHANGED <<option, mpc, timeout, num_sent, sleep, psock, last_recv,
                   result, prev, fails, fault, rvars, rsock, unet>>

\* mc_send sets received_ack = False and sendto raises: the outer except
\* closes the socket, which discards what is queued on it, and exits.
PSendFault ==
    /\ ppc = "send"
    /\ received_ack' = FALSE
    /\ psock' = <<>>
    /\ ppc' = "exit"
    /\ fault' = "send"
    /\ UNCHANGED <<option, mpc, timeout, num_sent, sleep, emitted, last_sent,
                   drained, last_recv, result, prev, backlog, fails, rvars,
                   rsock, mnet, unet>>

\* What one returned recvfrom does to received_ack: the else branch sets it
\* whatever the datagram holds.
AckSeenIfMatching(data, n) == received_ack \/ data = AckPayload(<<" ">> \o Decimal(n))
AckSeen(data, n) == TRUE

\* recvfrom(16) returns at most 16 bytes of a datagram.
RecvCap == 16

Received(p) == IF Len(p) > RecvCap THEN SubSeq(p, 1, RecvCap) ELSE p

\* recvfrom(16) returns a queued datagram.
PRecv ==
    /\ ppc = "recv"
    /\ psock # <<>>
    /\ LET data == Received(Head(psock))
       IN /\ received_ack' = AckSeen(data, num_sent)
          /\ last_recv' = data
    /\ psock' = Tail(psock)
    /\ drained' = IF drained < MaxDrain THEN drained + 1 ELSE drained
    /\ UNCHANGED <<option, mpc, timeout, ppc, num_sent, sleep, emitted,
                   last_sent, result, prev, backlog, fails, fault, rvars,
                   rsock, mnet, unet>>

\* The next value of num_sent.
NumSentStays(n) == n
NumSentNext(n) == n + 1

\* recvfrom raises socket.timeout: mc_send returns received_ack, and the
\* loop adjusts sleep, counts the probe and goes to time.sleep(sleep).
PTimeout ==
    /\ ppc = "recv"
    /\ psock = <<>>
    /\ timeout > 0
    /\ result' = IF received_ack THEN "ok" ELSE "fail"
    /\ prev' = sleep
    /\ sleep' = Adjust(sleep, received_ack)
    /\ num_sent' = NumSentNext(num_sent)
    /\ fails' = IF received_ack THEN 0
                ELSE IF fails < MaxFails THEN fails + 1 ELSE fails
    /\ ppc' = "sleep"
    /\ UNCHANGED <<option, mpc, timeout, received_ack, psock, emitted,
                   last_sent, drained, last_recv, backlog, fault, rvars,
                   rsock, mnet, unet>>

\* With settimeout(0) the socket is non-blocking: recvfrom on an empty
\* buffer raises BlockingIOError, which is not socket.timeout, so the outer
\* except closes the socket and exits.
PWouldBlock ==
    /\ ppc = "recv"
    /\ psock = <<>>
    /\ timeout = 0
    /\ psock' = <<>>
    /\ ppc' = "exit"
    /\ fault' = "would_block"
    /\ UNCHANGED <<option, mpc, timeout, num_sent, sleep, received_ack,
                   emitted, last_sent, drained, last_recv, result, prev,
                   backlog, fails, rvars, rsock, mnet, unet>>

\* A variant of PRecvFault that goes back to send the probe again.
PRecvFaultRetries ==
    /\ ppc = "recv"
    /\ ppc' = "send"
    /\ fault' = "recv"
    /\ UNCHANGED <<option, mpc, timeout, num_sent, sleep, received_ack, psock,
                   emitted, last_sent, drained, last_recv, result, prev,
                   backlog, fails, rvars, rsock, mnet, unet>>

\* recvfrom raises anything else: the outer except closes the socket,
\* which discards what is queued on it, and exits.
PRecvFault ==
    /\ ppc = "recv"
    /\ psock' = <<>>
    /\ ppc' = "exit"
    /\ fault' = "recv"
    /\ UNCHANGED <<option, mpc, timeout, num_sent, sleep, received_ack,
                   emitted, last_sent, drained, last_recv, result, prev,
                   backlog, fails, rvars, rsock, mnet, unet>>

\* time.sleep(sleep) returns and the loop goes round.  The history of the
\* cycle (result, prev, drained, last_recv, backlog) ends with the cycle.
PWake ==
    /\ ppc = "sleep"
    /\ ppc' = "send"
    /\ result' = "none"
    /\ prev' = sleep
    /\ drained' = 0
    /\ backlog' = <<>>
    /\ last_recv' = <<>>
    /\ UNCHANGED <<option, mpc, timeout, num_sent, sleep, received_ack, psock,
                   emitted, last_sent, fails, fault, rvars, rsock, mnet, unet>>

\* A datagram of an unrelated sender reaches the prober's port while the
\* prober is at one of `phases`; the buffer holds `cap` datagrams.
StrayArrives(cap, phases) ==
    /\ ppc \in phases
    /\ Len(psock) < cap
    /\ \E p \in StrayPayloads : psock' = Append(psock, p)
    /\ UNCHANGED <<option, mpc, timeout, pvars, rvars, rsock, mnet, unet>>

\* -------------------------------------------------------------- responder
GroupAddr == "group"

\* Where the acknowledgement goes: the address recvfrom returned with the
\* datagram.
AckDestGroup(d) == GroupAddr
AckDest(d) == d.src

\* The responder's loop body for the datagram at the head of its buffer,
\* when decode and split succeed: the acknowledgement is sent once, to the
\* datagram's source, and the loop goes back to recvfrom.  The network
\* carries it to the prober or loses it.
RReply(carried) ==
    /\ rpc = "wait"
    /\ rsock # <<>>
    /\ LET d == Head(rsock)
           r == DecodeProbe(d.data)
           ack == AckPayload(r.packet_no)
       IN /\ r.ok
          /\ rlast' = [id |-> d.id, data |-> d.data, src |-> d.src,
                       outcome |-> "acked", token |-> r.packet_no,
                       nacks |-> 1, ack |-> ack, dest |-> AckDest(d)]
          /\ unet' = IF carried /\ AckDest(d) = ProberAddr
                        /\ Cardinality(unet) < MaxInFlight
                     THEN unet \cup {ack}
                     ELSE unet
    /\ rsock' = Tail(rsock)
    /\ UNCHANGED <<option, mpc, timeout, pvars, psock, rpc, rdelivered, mnet>>

\* A variant of RReplyFault in which the exception ends receive_mc.
RReplyFaultEnds ==
    /\ rpc = "wait"
    /\ rsock # <<>>
    /\ LET d == Head(rsock)
           r == DecodeProbe(d.data)
       IN /\ r.ok
          /\ rlast' = [id |-> d.id, data |-> d.data, src |-> d.src,
                       outcome |-> "send_fault", token |-> r.packet_no,
                       nacks |-> 0, ack |-> <<>>, dest |-> "none"]
    /\ rsock' = Tail(rsock)
    /\ rpc' = "dead"
    /\ UNCHANGED <<option, mpc, timeout, pvars, psock, rdelivered, mnet, unet>>

\* The same, when sendto raises: the except prints and sleeps 5 seconds.
RReplyFault ==
    /\ rpc = "wait"
    /\ rsock # <<>>
    /\ LET d == Head(rsock)
           r == DecodeProbe(d.data)
       IN /\ r.ok
          /\ rlast' = [id |-> d.id, data |-> d.data, src |-> d.src,
                       outcome |-> "send_fault", token |-> r.packet_no,
                       nacks |-> 0, ack |-> <<>>, dest |-> "none"]
    /\ rsock' = Tail(rsock)
    /\ rpc' = "pause"
    /\ UNCHANGED <<option, mpc, timeout, pvars, psock, rdelivered, mnet, unet>>

\* The loop body when decode or the split's index raises: the except prints
\* and sleeps 5 seconds; nothing is sent.
RDecodeFailure ==
    /\ rpc = "wait"
    /\ rsock # <<>>
    /\ LET d == Head(rsock)
           r == DecodeProbe(d.data)
       IN /\ ~r.ok
          /\ rlast' = [id |-> d.id, data |-> d.data, src |-> d.src,
                       outcome |-> "decode_failed", token |-> <<>>,
                       nacks |-> 0, ack |-> <<>>, dest |-> "none"]
    /\ rsock' = Tail(rsock)
    /\ rpc' = "pause"
    /\ UNCHANGED <<option, mpc, timeout, pvars, psock, rdelivered, mnet, unet>>

\* time.sleep(5) returns.
RPauseEnd ==
    /\ rpc = "pause"
    /\ rpc' = "wait"
    /\ UNCHANGED <<option, mpc, timeout, pvars, psock, rsock, rlast,
                   rdelivered, mnet, unet>>

\* recvfrom raises: it is outside the try, so the exception ends receive_mc.
RRecvFault ==
    /\ rpc = "wait"
    /\ rpc' = "dead"
    /\ UNCHANGED <<option, mpc, timeout, pvars, psock, rsock, rlast,
                   rdelivered, mnet, unet>>

\* ---------------------------------------------------------------- network
\* A datagram sent to the group is put into the responder's buffer.
Enqueue(d) ==
    rsock' = Append(rsock, [id |-> rdelivered + 1, data |-> d.data, src |-> d.src])

\* The network delivers a probe in flight to the responder's socket, once
\* or (keep) as the first of several copies.
McDeliver(keep) ==
    /\ rpc \in {"wait", "pause"}
    /\ Len(rsock) < MaxQueue
    /\ rdelivered < MaxDeliver
    /\ \E d \in mnet :
          /\ Enqueue(d)
          /\ mnet' = IF keep THEN mnet ELSE mnet \ {d}
    /\ rdelivered' = rdelivered + 1
    /\ UNCHANGED <<option, mpc, timeout, pvars, psock, rpc, rlast, unet>>

\* A datagram of some sender on the group and port, with one of `payloads`
\* and from one of `srcs`, reaches the responder's socket.
GroupArrives(payloads, srcs) ==
    /\ rpc \in {"wait", "pause"}
    /\ Len(rsock) < MaxQueue
    /\ rdelivered < MaxDeliver
    /\ \E p \in payloads, a \in srcs : Enqueue([data |-> p, src |-> a])
    /\ rdelivered' = rdelivered + 1
    /\ UNCHANGED <<option, mpc, timeout, pvars, psock, rpc, rlast, mnet, unet>>

\* The network delivers an acknowledgement in flight to the prober's socket;
\* a full buffer drops it, and so does a port whose socket is closed.
UDeliver ==
    /\ \E a \in unet :
          /\ unet' = unet \ {a}
          /\ psock' = IF ppc \in {"send", "recv", "sleep"}
                         /\ Len(psock) < MaxQueue
                      THEN Append(psock, a)
                      ELSE psock
    /\ UNCHANGED <<option, mpc, timeout, pvars, rvars, rsock, mnet>>

\* ------------------------------------------------- pacing specification
\* The prober alone on a network that carries none of its probes, with
\* datagrams reaching its port while it awaits.
PSendLost == PSend(MaxCycles, FALSE)

StrayArrivesAwait == StrayArrives(PacingQueue, {"recv"})

InitPacing == InitWith(1, TRUE, FALSE, <<>>)

NextPacing == PSendLost \/ PRecv \/ PTimeout \/ PWake \/ StrayArrivesAwait

SpecPacing == InitPacing /\ [][NextPacing]_vars

\* ----------------------------------------------------------- pacing claims
\* x <= y on doubles.
Leq(x, y) == ~Less(y, x)

\* The smallest positive double.
Tiny == [m |-> 1, e |-> MinExp]

\* C1: in every state of the prober loop the pacing delay is at most 10.0
\* and is not negative.
C1_DelayWithinBounds == Leq(sleep, Ten) /\ Leq(Zero, sleep) /\ sleep.m >= 0

\* C1's case: a failure cycle taken at the ceiling after the delay had been
\* driven up.
C1_Witness == ppc = "sleep" /\ result = "fail" /\ prev = Ten /\ sleep = Ten

\* C2: after a failure cycle the delay is twice the delay before it, brought
\* up to 1.0 and down to 10.0: it lies in [1.0, 10.0] and is not smaller than
\* the delay before the cycle.
C2_FailureClamps ==
    (ppc = "sleep" /\ result = "fail") =>
        /\ Leq(One, sleep) /\ Leq(sleep, Ten)
        /\ Leq(prev, sleep)
        /\ IF Less(Twice(prev), One) THEN sleep = One
           ELSE IF Less(Ten, Twice(prev)) THEN sleep = Ten
           ELSE sleep = Twice(prev)

\* C2's case: a failure cycle that follows successes, where the floor acts.
C2_Witness ==
    ppc = "sleep" /\ result = "fail" /\ Less(Twice(prev), One) /\ sleep = One

\* C3 as stated: after a success cycle the delay is exactly half the delay
\* before it, strictly smaller than it, and greater than zero.
C3_Original ==
    (ppc = "sleep" /\ result = "ok") =>
        /\ Twice(sleep) = prev
        /\ Less(sleep, prev)
        /\ Less(Zero, sleep)

\* The largest delay whose half is not a double: 5 * 2^-1074.
FiveTiny == [m |-> 5, e |-> MinExp]

\* C3 amended: after a success cycle the delay is the double nearest to half
\* the delay before it and is never negative.  It is strictly smaller than
\* the delay before it whenever that is positive; it is exactly half of it,
\* and positive, down to a delay of 2^-1073; 5 * 2^-1074 is followed by
\* 2^-1073 (the half rounded to even), and 2^-1074 and 0.0 by 0.0.
C3_HalvesDownToZero ==
    (ppc = "sleep" /\ result = "ok") =>
        /\ Leq(Zero, sleep)
        /\ Less(Zero, prev) => Less(sleep, prev)
        /\ (prev.m # 0 /\ prev.e > MinExp) =>
              (Twice(sleep) = prev /\ Less(Zero, sleep))
        /\ prev = FiveTiny => sleep = [m |-> 1, e |-> MinExp + 1]
        /\ (prev = Tiny \/ prev = Zero) => sleep = Zero

\* C3's case: the success cycle that takes the delay from 2^-1074 to 0.0.
C3_Witness == ppc = "sleep" /\ result = "ok" /\ prev = Tiny /\ sleep = Zero

\* ------------------------------------------------------ traffic of others
\* Payloads of unrelated senders on the group and port, and damaged probes.
Hello == <<"h", "e", "l", "l", "o">>
Dashed == <<"t", "e", "m", "p", "-", "2", "1">>
WrongSeparator == <<"v", "e", "r", "y", " ", "i", "m", "p", "o", "r", "t", "a", "n", "t", " ", "d", "a", "t", "a", " ", ":", " ", "7">>
NoSeparator == <<"v", "e", "r", "y", " ", "i", "m", "p", "o", "r", "t", "a", "n", "t", " ", "d", "a", "t", "a">>
NoSequence == <<"v", "e", "r", "y", " ", "i", "m", "p", "o", "r", "t", "a", "n", "t", " ", "d", "a", "t", "a", " ", "-", " ">>
NonText == <<BadByte, "-", "1">>
Empty == <<>>

ForeignPayloads ==
    {Hello, Dashed, WrongSeparator, NoSeparator, NoSequence, NonText, Empty}

\* Sequence numbers of the probes that reach the responder in the responder
\* specification.
ProbeSeqs == {0, 10}

\* --------------------------------------------- responder specification
\* The responder alone: probes of a prober and datagrams of other senders
\* reach its socket; the acknowledgements it sends are not followed further.
ProbeArrives ==
    GroupArrives({ProbePayload(n) : n \in ProbeSeqs}, {ProberAddr, OtherAddr})

ForeignArrives == GroupArrives(ForeignPayloads, {OtherAddr})

RReplyUntracked == RReply(FALSE)

InitResponder == InitWith(1, FALSE, TRUE, <<>>)

RStep == RReplyUntracked \/ RReplyFault \/ RDecodeFailure \/ RPauseEnd

NextResponder == RStep \/ RRecvFault \/ ProbeArrives \/ ForeignArrives

SpecResponder == InitResponder /\ [][NextResponder]_vars

\* The responder is a running process: whenever its loop can take a step
\* it takes one.
FairSpecResponder == SpecResponder /\ WF_vars(RStep)

\* ------------------------------------------------- codec specification
\* The responder with one probe, of any sequence number up to MaxSeq, in
\* its buffer.
InitCodec ==
    \E n \in 0..MaxSeq :
       InitWith(1, FALSE, TRUE,
                <<[id |-> 1, data |-> ProbePayload(n), src |-> ProberAddr]>>)

NextCodec == RReplyUntracked

SpecCodec == InitCodec /\ [][NextCodec]_vars

\* --------------------------------------------------------- the protocol
\* Prober and responder on a network that loses, delays and duplicates
\* datagrams, with other senders on the group and towards the prober.
Timeouts == {0, 1}

PSendAny == \E carried \in BOOLEAN : PSend(MaxSent, carried)

\* Datagrams of unrelated senders reach the prober's port during its wait;
\* what reaches the socket between two waits is an acknowledgement come
\* late (UDeliver).
StrayArrivesAny == StrayArrives(MaxQueue, {"recv"})

RReplyAny == \E carried \in BOOLEAN : RReply(carried)

McDeliverAny == \E keep \in BOOLEAN : McDeliver(keep)

OtherSenderArrives == GroupArrives({Hello}, {OtherAddr})

Init == \E tmo \in Timeouts : InitWith(tmo, TRUE, TRUE, <<>>)

ProberNext ==
    PSendAny \/ PSendFault \/ PRecv \/ PTimeout \/ PWouldBlock \/ PRecvFault
    \/ PWake

ResponderNext ==
    RReplyAny \/ RReplyFault \/ RDecodeFailure \/ RPauseEnd \/ RRecvFault

NetworkNext ==
    McDeliverAny \/ OtherSenderArrives \/ UDeliver \/ StrayArrivesAny

Next == ProberNext \/ ResponderNext \/ NetworkNext

Spec == Init /\ [][Next]_vars

\* Both roles are running processes: whenever a loop can take a step that
\* is not a transport fault, it takes one.  Nothing is assumed of the network or of
\* the other senders.
PLoop == PSendAny \/ PRecv \/ PTimeout \/ PWouldBlock \/ PWake

RLoop == RReplyAny \/ RReplyFault \/ RDecodeFailure \/ RPauseEnd

FairSpec == Spec /\ WF_vars(PLoop) /\ WF_vars(RLoop)

\* ------------------------------------------------------- protocol claims
\* C4: a cycle is recorded as a success exactly when recvfrom returned at
\* least one datagram between the cycle's send and its timeout, whatever
\* the datagram holds.
C4_SuccessIffAnyDatagram ==
    /\ ppc = "recv" => (received_ack <=> drained >= 1)
    /\ ppc = "sleep" => (result = "ok" <=> drained >= 1)
    /\ ppc = "sleep" => result \in {"ok", "fail"}

\* C4's case: a success recorded on a datagram that carries no sequence
\* number at all.
C4_Witness ==
    ppc = "sleep" /\ result = "ok" /\ drained >= 1 /\ last_recv \in StrayPayloads

\* The payloads of the first probes, written out.
ProbeTexts ==
  <<<<"v", "e", "r", "y", " ", "i", "m", "p", "o", "r", "t", "a", "n", "t", " ", "d", "a", "t", "a", " ", "-", " ", "0">>,
     <<"v", "e", "r", "y", " ", "i", "m", "p", "o", "r", "t", "a", "n", "t", " ", "d", "a", "t", "a", " ", "-", " ", "1">>,
     <<"v", "e", "r", "y", " ", "i", "m", "p", "o", "r", "t", "a", "n", "t", " ", "d", "a", "t", "a", " ", "-", " ", "2">>,
     <<"v", "e", "r", "y", " ", "i", "m", "p", "o", "r", "t", "a", "n", "t", " ", "d", "a", "t", "a", " ", "-", " ", "3">>,
     <<"v", "e", "r", "y", " ", "i", "m", "p", "o", "r", "t", "a", "n", "t", " ", "d", "a", "t", "a", " ", "-", " ", "4">>,
     <<"v", "e", "r", "y", " ", "i", "m", "p", "o", "r", "t", "a", "n", "t", " ", "d", "a", "t", "a", " ", "-", " ", "5">>>>

\* C9: the sequence number starts at 0 and grows by one per cycle, whatever
\* the cycle's result; the k-th probe sent (k = 0, 1, ...) carries
\* "very important data - k", so no sequence number is sent twice.
C9_SequenceAdvancesByOne ==
    /\ emitted = num_sent + (IF ppc = "recv" THEN 1 ELSE 0)
       \/ (ppc = "exit" /\ emitted = num_sent + 1)
    /\ emitted > 0 => last_sent = ProbeTexts[emitted]
    /\ ppc = "recv" => last_sent = ProbeTexts[num_sent + 1]
    /\ \A d \in mnet : d.src = ProberAddr =>
          \E k \in 0..(emitted - 1) : d.data = ProbeTexts[k + 1]

\* C9's case: two cycles done, a failure and then a success, the second
\* with the second probe.
C9_Witness ==
    /\ ppc = "sleep" /\ num_sent = 2 /\ emitted = 2 /\ result = "ok"
    /\ sleep = Two /\ last_sent = ProbeTexts[2]

\* C10 as stated: every Await ends, whatever arrives on the prober's socket
\* and however much of it: the prober goes on to adjust and sleep, unless a
\* fault ends the process.
C10_AwaitEnds == (ppc = "recv") ~> (ppc = "sleep" \/ ppc = "exit")

\* ------------------------------------------------------ responder claims
\* A probe of this protocol: the tag, the separator and a decimal number.
WellFormed(data) == \E n \in 0..MaxSeq : data = ProbePayload(n)

\* The fixed literal that marks the protocol's probes.
Tag == <<"v", "e", "r", "y", " ", "i", "m", "p", "o", "r", "t", "a", "n", "t", " ", "d", "a", "t", "a">>

HasTag(data) == Len(data) >= Len(Tag) /\ SubSeq(data, 1, Len(Tag)) = Tag

Handled == rlast.outcome # "none"

\* C5 as stated: every well-formed probe the responder has taken from its
\* socket was answered with exactly one acknowledgement, sent to the
\* probe's source.
C5_Original ==
    (Handled /\ WellFormed(rlast.data)) =>
        (rlast.outcome = "acked" /\ rlast.nacks = 1 /\ rlast.dest = rlast.src)

\* What holds of every well-formed probe taken from the socket: one
\* acknowledgement to its source, or none when the send raised; never two,
\* and the probe is not kept for another try.
C5_AtMostOnce ==
    (Handled /\ WellFormed(rlast.data)) =>
        /\ rlast.outcome \in {"acked", "send_fault"}
        /\ rlast.outcome = "acked" => (rlast.nacks = 1 /\ rlast.dest = rlast.src)
        /\ rlast.outcome = "send_fault" => rlast.nacks = 0
        /\ \A j \in 1..Len(rsock) : rsock[j].id # rlast.id

\* C5 amended: every well-formed probe delivered to a live responder, a
\* duplicate or one that arrives during the pause included, is eventually
\* taken from the socket and answered once: with exactly one acknowledgement
\* to its source, unless the send of that acknowledgement raises, and then
\* with none; there is never a second acknowledgement and never a retry.
C5_AnsweredOnce ==
    /\ []C5_AtMostOnce
    /\ \A i \in 1..MaxDeliver :
          (\E j \in 1..Len(rsock) :
              rsock[j].id = i /\ WellFormed(rsock[j].data))
          ~> (\/ rlast.id = i /\ rlast.outcome \in {"acked", "send_fault"}
              \/ rpc = "dead")

\* C5's case: the second datagram delivered, a probe (a duplicate, or one
\* that came in during a pause or behind another), has been acknowledged to
\* its source.
C5_Witness ==
    /\ rlast.id = 2 /\ WellFormed(rlast.data) /\ rlast.outcome = "acked"
    /\ rlast.nacks = 1 /\ rlast.dest = rlast.src

\* C6 as stated: the probe "very important data - N" is decoded to the
\* token "N", the digits alone, and acknowledged with exactly "ack - N".
C6_Original ==
    \A n \in 0..MaxSeq :
       (rlast.outcome = "acked" /\ rlast.data = ProbePayload(n)) =>
           (rlast.token = Decimal(n) /\ rlast.ack = AckPrefix \o Decimal(n))

\* C7 as stated: a datagram without the tag fails to decode and gets no
\* acknowledgement.
C7_Original ==
    (Handled /\ ~HasTag(rlast.data)) =>
        (rlast.outcome = "decode_failed" /\ rlast.nacks = 0)

\* Payloads that are damaged probes: the separator wrong, the sequence
\* field missing (with the separator or without it), bytes that are no text.
Malformed == {WrongSeparator, NoSeparator, NoSequence, NonText}

\* C8 as stated: every malformed payload is a decode failure, with no
\* acknowledgement.
C8_Original ==
    (Handled /\ rlast.data \in Malformed) =>
        (rlast.outcome = "decode_failed" /\ rlast.nacks = 0)

\* C11 as stated: with the timeout configured as 0 and nothing queued on the
\* socket, the receive times out at once and the cycle is a failure cycle, so
\* the prober ends only on a fault of the transport: a prober configured
\* with 0 that has ended was ended by a fault of the send or of a receive
\* that had something else to report than an empty socket.
C11_ZeroTimeoutFailureCycle ==
    (timeout = 0 /\ ppc = "exit") => fault \in {"send", "recv"}

\* What the prober's loop leaves alone once the process has ended.
ProberFrozen ==
    UNCHANGED <<ppc, num_sent, sleep, received_ack, psock, emitted,
                last_sent, drained, last_recv, result, fault>>

\* How a step may leave the send and the wait, and what a step may do once
\* the process has ended: the send is left for the wait with one more probe
\* out, or by a fault; the wait is left by the receive timeout, for the sleep
\* of the same cycle, or by a fault; a fault ends the process with the delay
\* and the sequence number as they were, and then nothing moves.
ProberStep ==
    /\ (ppc = "send" /\ ppc' # "send") =>
          (\/ ppc' = "recv" /\ fault' = "none" /\ emitted' = emitted + 1
           \/ /\ ppc' = "exit" /\ fault' = "send"
              /\ UNCHANGED <<num_sent, sleep, emitted>>)
    /\ (ppc = "recv" /\ ppc' # "recv") =>
          (\/ /\ ppc' = "sleep" /\ fault' = "none"
              /\ timeout > 0 /\ psock = <<>>
           \/ /\ ppc' = "exit" /\ fault' \in {"recv", "would_block"}
              /\ UNCHANGED <<num_sent, sleep, emitted>>)
    /\ (ppc = "exit") => ProberFrozen

\* C12: the prober has ended exactly when a fault was raised, never by a
\* receive timeout, which leads into the sleep of the same cycle; a fault of
\* the send or of a receive closes the socket, nothing staying queued on
\* it, and ends the process, and after it no probe is emitted, nothing is
\* received and neither the delay nor the sequence number changes again.
C12_OnlyFaultsTerminate ==
    /\ [](ppc = "exit" <=> fault # "none")
    /\ [](ppc = "exit" => psock = <<>>)
    /\ [][ProberStep]_vars

\* C12's case: the first cycle ended by the receive timeout and the loop
\* went on (delay 4.0, sequence number 1, second probe out); the second
\* cycle's receive raised a fault and the process ended there.
C12_Witness ==
    /\ timeout > 0 /\ ppc = "exit" /\ fault = "recv"
    /\ num_sent = 1 /\ emitted = 2 /\ sleep = [m |-> 1, e |-> 2]

\* ------------------------------------------------------ module-level code
\* str.lower() on the letters the selectors below are made of.
Uppers == <<"S", "R", "X", "E", "N", "D">>
Lowers == <<"s", "r", "x", "e", "n", "d">>

LowerChar(c) ==
    IF \E i \in DOMAIN Uppers : Uppers[i] = c
    THEN Lowers[CHOOSE i \in DOMAIN Uppers : Uppers[i] = c]
    ELSE c

\* A variant of Lower that leaves the case as it is.
LowerNone(str) == str
Lower(str) == [i \in DOMAIN str |-> LowerChar(str[i])]

\* Values of -o/--option: the four selectors, and strings that are none.
Options ==
    {<<"s">>, <<"S">>, <<"r">>, <<"R">>, <<"x">>, <<"X">>, <<>>,
     <<"s", "r">>, <<"R", "S">>, <<"S", "E", "N", "D">>, <<" ", "s">>,
     <<"r", " ">>}

\* if args.option.lower() == "s": loop_sending_mc(...), which sets its
\* locals and forms the send socket.
MainSender ==
    /\ mpc = "start"
    /\ Lower(option) = <<"s">>
    /\ mpc' = "loop_sending_mc"
    /\ ppc' = "send"
    /\ num_sent' = 0
    /\ sleep' = Two
    /\ UNCHANGED <<option, timeout, received_ack, psock, emitted, last_sent,
                   drained, last_recv, result, prev, backlog, fails, fault,
                   rvars, rsock, mnet, unet>>

\* elif args.option.lower() == "r": receive_mc(...), which forms the
\* receive socket and joins the group.
MainReceiver ==
    /\ mpc = "start"
    /\ Lower(option) # <<"s">>
    /\ Lower(option) = <<"r">>
    /\ mpc' = "receive_mc"
    /\ rpc' = "wait"
    /\ UNCHANGED <<option, timeout, pvars, psock, rsock, rlast, rdelivered,
                   mnet, unet>>

\* else: the message is printed and the module ends.
MainUsage ==
    /\ mpc = "start"
    /\ Lower(option) # <<"s">>
    /\ Lower(option) # <<"r">>
    /\ mpc' = "usage"
    /\ UNCHANGED <<option, timeout, pvars, rvars, psock, rsock, mnet, unet>>

\* One instance started with any selector and either kind of timeout: the
\* loop it enters runs against datagrams that reach its socket.
InitMain ==
    \E opt \in Options, tmo \in Timeouts :
        /\ option = opt
        /\ mpc = "start"
        /\ LoopsInit(tmo, FALSE, FALSE, <<>>)

NextMain ==
    MainSender \/ MainReceiver \/ MainUsage \/ ProberNext \/ StrayArrivesAny
    \/ NextResponder

SpecMain == InitMain /\ [][NextMain]_vars

\* ---------------------------------------------------------- selector claim
\* No send socket, no probe sent, nothing received by loop_sending_mc.
ProberQuiet ==
    /\ ppc = "idle" /\ emitted = 0 /\ psock = <<>> /\ drained = 0
    /\ last_sent = <<>> /\ mnet = {}

\* No receive socket, no datagram received, no acknowledgement sent.
ResponderQuiet ==
    /\ rpc = "idle" /\ rsock = <<>> /\ rdelivered = 0 /\ rlast = NoDatagram
    /\ unet = {}

\* C13: before the selector is looked at nothing has happened; once it has
\* been, "s" and "S" have entered the prober loop and nothing of the
\* responder's has happened, "r" and "R" have entered the responder loop and
\* nothing of the prober's has happened, and any other value has entered
\* neither: no socket, no datagram sent, none received.
C13_SelectorIgnoresCase ==
    /\ mpc = "start" => (ProberQuiet /\ ResponderQuiet)
    /\ (mpc # "start" /\ option \in {<<"s">>, <<"S">>}) =>
          (mpc = "loop_sending_mc" /\ ppc # "idle" /\ ResponderQuiet)
    /\ (mpc # "start" /\ option \in {<<"r">>, <<"R">>}) =>
          (mpc = "receive_mc" /\ rpc # "idle" /\ ProberQuiet)
    /\ (mpc # "start" /\ option \notin {<<"s">>, <<"S">>, <<"r">>, <<"R">>}) =>
          (mpc = "usage" /\ ProberQuiet /\ ResponderQuiet)

\* C13's case: started with "R", the instance is in the responder loop and
\* has acknowledged a probe, with nothing of the prober's having happened.
C13_Witness ==
    /\ option = <<"R">> /\ mpc = "receive_mc"
    /\ rlast.outcome = "acked" /\ ProberQuiet

\* ------------------------------------------------------- late-reply claim
\* The acknowledgement the responder sends for probe 0, written out.
AckOfProbe0 == <<"a", "c", "k", " ", "-", " ", " ", "0">>

\* While the prober runs, its socket loses a datagram only to a recvfrom of
\* the wait: any other step leaves the queue as it is or adds to its end.
\* The queue is discarded only when a fault closes the socket.
QueueKept ==
    \/ psock' = psock
    \/ Len(psock') = Len(psock) + 1 /\ SubSeq(psock', 1, Len(psock)) = psock
    \/ ppc = "recv" /\ ppc' = "recv" /\ psock # <<>> /\ psock' = Tail(psock)
    \/ ppc # "exit" /\ ppc' = "exit" /\ fault' # "none" /\ psock' = <<>>

\* C14: a datagram on the prober's socket stays there through the sleep and
\* the next send until a recvfrom of some wait takes it; so whatever was
\* queued when a cycle's probe was sent, the acknowledgement of an earlier
\* probe included, has been received by the time that cycle's wait ends on
\* the empty socket, and the cycle counts as acknowledged, is recorded as a
\* success and halves the delay, whatever became of the cycle's own probe.
C14_LateAckCountsForLaterCycle ==
    /\ [](/\ (ppc = "recv" /\ backlog # <<>> /\ psock = <<>>) =>
                (received_ack /\ drained >= 1)
          /\ (ppc = "sleep" /\ backlog # <<>>) =>
                (result = "ok" /\ drained >= 1 /\ sleep = Halve(prev)))
    /\ [][QueueKept]_vars

\* C14's case: cycle 0 was recorded as a failure (2.0 became 4.0) and the
\* acknowledgement of probe 0 was on the socket, not yet received, when
\* probe 1 was sent; probe 1 was lost: the responder has only ever been
\* given probe 0 and has sent only that acknowledgement; cycle 1 received
\* it, is recorded as a success and has halved the delay to 2.0.
C14_Witness ==
    /\ ppc = "sleep" /\ num_sent = 2 /\ last_sent = ProbeTexts[2]
    /\ backlog = <<AckOfProbe0>> /\ last_recv = AckOfProbe0
    /\ result = "ok" /\ prev = [m |-> 1, e |-> 2] /\ sleep = Two
    /\ rdelivered = 1 /\ rlast.id = 1 /\ rlast.data = ProbeTexts[1]
    /\ rlast.outcome = "acked" /\ rsock = <<>> /\ mnet = {} /\ unet = {}

\* ---------------------------------------------------- sustained-loss claim
\* C15: with no success so far the delay after 0, 1, 2, 3, ... cycles is
\* 2.0, 4.0, 8.0, 10.0, 10.0, ...; and wherever the delay stood when the
\* failures began, after five failure cycles in a row it is exactly 10.0 and
\* it is 10.0 after every further one.
C15_CeilingUnderSustainedLoss ==
    /\ (fails = num_sent /\ fails < MaxFails) =>
          sleep = CASE fails = 0 -> Two
                    [] fails = 1 -> [m |-> 1, e |-> 2]
                    [] fails = 2 -> [m |-> 1, e |-> 3]
                    [] OTHER -> Ten
    /\ fails >= 5 => sleep = Ten
    /\ (fails >= 1 /\ ppc = "sleep" /\ prev = Ten) => sleep = Ten

\* C15's case: the fifth failure in a row, after a run of successes had
\* brought the delay under 0.5, takes the delay from 8.0 to 10.0.
C15_Witness ==
    /\ ppc = "sleep" /\ result = "fail" /\ fails = 5
    /\ prev = [m |-> 1, e |-> 3] /\ sleep = Ten

\* ------------------------------------------------- responder fault claim
\* What a step of the responder may do about faults: a datagram whose
\* acknowledgement could not be sent, like one that could not be decoded, is
\* taken from the socket, gets no acknowledgement and puts the loop in its
\* pause; the pause sends nothing and ends in the wait; the loop ends only
\* out of the wait, with no datagram taken, and stays ended.
ResponderStep ==
    /\ (rlast' # rlast) =>
          /\ rsock # <<>> /\ rsock' = Tail(rsock) /\ rlast'.id = Head(rsock).id
          /\ (rlast'.outcome \in {"send_fault", "decode_failed"}) =>
                (rpc' = "pause" /\ rlast'.nacks = 0 /\ unet' = unet)
          /\ (rlast'.outcome = "acked") => rpc' = "wait"
    /\ (rpc = "pause" /\ rpc' # "pause") =>
          (rpc' = "wait" /\ rlast' = rlast /\ rsock' = rsock /\ unet' = unet)
    /\ (rpc # "dead" /\ rpc' = "dead") =>
          (rpc = "wait" /\ rlast' = rlast /\ rsock' = rsock)
    /\ (rpc = "dead") => UNCHANGED <<rpc, rlast, rsock, unet>>

\* C16: a fault of the acknowledgement's send is handled as a decode
\* failure is: no acknowledgement, the pause, then the wait again, the
\* datagram gone from the socket so that it is never answered later; the
\* loop ends only when the receive itself raises.
C16_SendFaultPauses ==
    /\ [][ResponderStep]_vars
    /\ [](rlast.outcome = "send_fault" =>
             (rlast.nacks = 0 /\ \A j \in 1..Len(rsock) : rsock[j].id # rlast.id))
    /\ (rpc = "pause") ~> (rpc = "wait")

\* C16's case: the send of the first datagram's acknowledgement raised; the
\* responder has been through the pause and is waiting again, alive, with
\* the next datagram on its socket and nothing sent for the first.
C16_Witness ==
    /\ rpc = "wait" /\ rlast.id = 1 /\ rlast.outcome = "send_fault"
    /\ rlast.nacks = 0 /\ WellFormed(rlast.data) /\ Len(rsock) = 1

====
